---- MODULE Spec2Model ----
(***************************************************************************)
(* Model of the pairwise-similarity core of the repository:                *)
(*   src/agent/similarity_calculator.py  SA and the naive matrix loop      *)
(*   src/agent/similarity_matrix.py      calculate_similarity_matrix       *)
(*                                                                         *)
(* float64 values are modelled as fixed-point numbers with SCALE units per *)
(* 1.0, rounded to nearest after every operation, plus the value NaN.      *)
(* +-inf is outside the modelled value set: no enumerated input divides a  *)
(* non-zero value by zero or overflows.                                    *)
(***************************************************************************)
EXTENDS Integers, Sequences, FiniteSets, TLC

VARIABLES df, hp, pc, i, j, similarity_matrix, sa_calls,
          pos_similarity_matrix, rot_similarity_matrix,
          final_similarity_matrix, matrix_df,
          naive_error, vec_error, naive_file, vec_file,
          ENV_ID, anchor_count, csv_rows, logger_pc, capture_due, runs,
          last_message

vars == <<df, hp, pc, i, j, similarity_matrix, sa_calls,
          pos_similarity_matrix, rot_similarity_matrix,
          final_similarity_matrix, matrix_df,
          naive_error, vec_error, naive_file, vec_file,
          ENV_ID, anchor_count, csv_rows, logger_pc, capture_due, runs,
          last_message>>

\* the state of the telemetry logger (generatepp.py) and of its csv file
logVars == <<ENV_ID, anchor_count, csv_rows, logger_pc, capture_due, runs,
             last_message>>

(***************************************************************************)
(* Bounds                                                                  *)
(***************************************************************************)
\* largest number of rows of the input table
MaxN == 2

(***************************************************************************)
(* float64 arithmetic                                                      *)
(***************************************************************************)
\* fixed-point units per 1.0
SCALE == 100

NaN == [nan |-> TRUE, v |-> 0]
Fin(x) == [nan |-> FALSE, v |-> x]
Zero == Fin(0)
One == Fin(SCALE)
Two == Fin(2 * SCALE)

\* n / d rounded to nearest, ties away from zero, symmetric in the sign (d > 0)
RDiv(n, d) ==
    IF n >= 0 THEN (2 * n + d) \div (2 * d)
              ELSE -((2 * (-n) + d) \div (2 * d))

Add(a, b) == IF a.nan \/ b.nan THEN NaN ELSE Fin(a.v + b.v)
Sub(a, b) == IF a.nan \/ b.nan THEN NaN ELSE Fin(a.v - b.v)
Neg(a) == IF a.nan THEN NaN ELSE Fin(-a.v)
Mul(a, b) == IF a.nan \/ b.nan THEN NaN ELSE Fin(RDiv(a.v * b.v, SCALE))
\* a / b; 0/0 is NaN (numpy warns, does not raise)
FDiv(a, b) ==
    IF a.nan \/ b.nan THEN NaN
    ELSE IF b.v = 0 THEN NaN
    ELSE IF b.v > 0 THEN Fin(RDiv(a.v * SCALE, b.v))
    ELSE Fin(-RDiv(a.v * SCALE, -b.v))
\* mutant: the sign of the value kept
AbsSigned(a) == a

Abs(a) == IF a.nan THEN NaN ELSE IF a.v < 0 THEN Fin(-a.v) ELSE a
\* a > b as float comparison: False when either side is NaN
Gt(a, b) == ~a.nan /\ ~b.nan /\ a.v > b.v
\* mutant: a clamp by min and max, which turns NaN into the lower bound
ClipSanitizing(a, lo, hi) ==
    IF a.nan THEN lo
    ELSE IF a.v < lo.v THEN lo
    ELSE IF a.v > hi.v THEN hi
    ELSE a

\* np.clip(a, lo, hi): NaN stays NaN
Clip(a, lo, hi) ==
    IF a.nan THEN NaN
    ELSE IF a.v < lo.v THEN lo
    ELSE IF a.v > hi.v THEN hi
    ELSE a

RECURSIVE ISqrt(_)
\* floor of the square root of a natural number
ISqrt(n) ==
    IF n < 2 THEN n
    ELSE LET s == 2 * ISqrt(n \div 4)
         IN IF (s + 1) * (s + 1) <= n THEN s + 1 ELSE s

\* np.sqrt on a non-negative value, rounded to nearest
Sqrt(a) ==
    IF a.nan \/ a.v < 0 THEN NaN
    ELSE LET n == a.v * SCALE
             r == ISqrt(n)
         IN Fin(IF n - r * r > r THEN r + 1 ELSE r)

\* exp(-x/SCALE) for 0 <= x <= SCALE/2: cubic Taylor polynomial, rounded once
ExpTaylor(x) ==
    RDiv(6 * SCALE * SCALE * SCALE - 6 * x * SCALE * SCALE
           + 3 * x * x * SCALE - x * x * x,
         6 * SCALE * SCALE)

RECURSIVE ExpNeg(_)
\* exp(-x/SCALE) for x >= 0, by argument reduction in steps of 1/2
ExpNeg(x) ==
    IF 2 * x <= SCALE THEN ExpTaylor(x)
    ELSE RDiv(ExpNeg(x - SCALE \div 2) * ExpTaylor(SCALE \div 2), SCALE)

\* np.exp; the argument is never positive for the enumerated hyperparameters
Exp(a) ==
    IF a.nan THEN NaN
    ELSE IF a.v <= 0 THEN Fin(ExpNeg(-a.v))
    ELSE Fin(RDiv(SCALE * SCALE, ExpNeg(a.v)))

\* np.dot of two vectors of the same length, summed in index order
RECURSIVE DotUpTo(_, _, _)
DotUpTo(a, b, k) ==
    IF k = 0 THEN Zero
    ELSE Add(DotUpTo(a, b, k - 1), Mul(a[k], b[k]))
Dot(a, b) == DotUpTo(a, b, Len(a))

\* np.linalg.norm of a vector
Norm(a) == Sqrt(Dot(a, a))

VSub(a, b) == [k \in 1..Len(a) |-> Sub(a[k], b[k])]
VDiv(a, s) == [k \in 1..Len(a) |-> FDiv(a[k], s)]

(***************************************************************************)
(* Input tables (the rows read_csv can hand to either script)              *)
(***************************************************************************)
\* a missing env_name cell: read_csv yields float NaN
MissingEnv == "NaN"

\* a cell of a numeric column that holds text: to_numpy(dtype=float) raises
\* ValueError on it, so no arithmetic is ever applied to it
NonNumeric == [nan |-> FALSE, v |-> 0, text |-> TRUE]
IsText(c) == "text" \in DOMAIN c

Vec3(x, y, z) == <<Fin(x), Fin(y), Fin(z)>>
Vec4(w, x, y, z) == <<Fin(w), Fin(x), Fin(y), Fin(z)>>

\* (anchor_id, env_name) of a row; a missing anchor_id cell is NaN
Keys == { <<Fin(1), "A">>, <<Fin(2), "A">>, <<Fin(1), "B">>,
          <<NaN, "A">>, <<Fin(2), MissingEnv>> }

\* (position, linear velocity, quaternion) of a row
Profiles ==
    { \* at the origin, at rest, identity rotation
      <<Vec3(0, 0, 0), Vec3(0, 0, 0), Vec4(100, 0, 0, 0)>>,
      \* distance 5 from the origin, moving, unnormalized quaternion
      <<Vec3(300, 400, 0), Vec3(0, 0, 200), Vec4(100, 100, 100, 0)>>,
      \* distance 5 from the origin, at rest, identity rotation
      <<Vec3(300, 400, 0), Vec3(0, 0, 0), Vec4(100, 0, 0, 0)>>,
      \* zero-norm quaternion
      <<Vec3(0, 0, 0), Vec3(0, 0, 0), Vec4(0, 0, 0, 0)>>,
      \* NaN position coordinate
      <<<<NaN, Fin(0), Fin(0)>>, Vec3(0, 0, 0), Vec4(100, 0, 0, 0)>> }

\* text in the pos_x cell, in records of environment "A"
TextProfile ==
    <<<<NonNumeric, Fin(0), Fin(0)>>, Vec3(0, 0, 0), Vec4(100, 0, 0, 0)>>
TextKeys == { <<Fin(1), "A">>, <<Fin(2), "A">> }

\* (ang_vel_x, ang_vel_y, ang_vel_z, has_collided): columns of the table
\* that neither script selects
Extras(ax, ay, az, collided) ==
    [ang_vel |-> Vec3(ax, ay, az), has_collided |-> collided]

MakeRow(k, p, x) ==
    [anchor_id |-> k[1], env_name |-> k[2],
     pos |-> p[1], vel |-> p[2], q |-> p[3],
     ang_vel |-> x.ang_vel, has_collided |-> x.has_collided]

Rows ==
    { MakeRow(k, p, Extras(0, 0, 0, FALSE)) : k \in Keys, p \in Profiles }
      \cup { MakeRow(k, TextProfile, Extras(0, 0, 0, FALSE)) : k \in TextKeys }

\* the hyperparameters set in __main__ of both scripts
MainHP == [Wp |-> Fin(25), Wv |-> Fin(75), Wpos |-> Fin(60), Wrot |-> Fin(40)]
\* weights whose sum exceeds 1
HeavyHP == [Wp |-> Fin(25), Wv |-> Fin(75), Wpos |-> Fin(80), Wrot |-> Fin(60)]
HyperParams == {MainHP, HeavyHP}

Tables == UNION { [1..n -> Rows] : n \in 0..MaxN }

(***************************************************************************)
(* SA (similarity_calculator.py)                                           *)
(***************************************************************************)
\* row1['anchor_id'] == row2['anchor_id']: NaN never equals anything
AnchorEq(a, b) == ~a.nan /\ ~b.nan /\ a.v = b.v
\* row1['env_name'] != row2['env_name']: NaN differs from everything
EnvNe(a, b) == a = MissingEnv \/ b = MissingEnv \/ a # b

\* mutant: the angular velocity counted into the speed of each record
PosSimilarityWithAngVel(row1, row2, Wp, Wv) ==
    LET vel1_mag == Norm(row1.vel \o row1.ang_vel)
        vel2_mag == Norm(row2.vel \o row2.ang_vel)
        pos_distance == Norm(VSub(row1.pos, row2.pos))
        avg_velocity == FDiv(Add(vel1_mag, vel2_mag), Two)
        dynamic_scale == FDiv(Wp, Add(One, Mul(avg_velocity, Wv)))
    IN Exp(Mul(Neg(dynamic_scale), pos_distance))

\* mutant: the score taken as 1 - exp(...), growing with the distance
PosSimilarityComplement(row1, row2, Wp, Wv) ==
    LET vel1_mag == Norm(row1.vel)
        vel2_mag == Norm(row2.vel)
        pos_distance == Norm(VSub(row1.pos, row2.pos))
        avg_velocity == FDiv(Add(vel1_mag, vel2_mag), Two)
        dynamic_scale == FDiv(Wp, Add(One, Mul(avg_velocity, Wv)))
    IN Sub(One, Exp(Mul(Neg(dynamic_scale), pos_distance)))

PosSimilarity(row1, row2, Wp, Wv) ==
    LET vel1_mag == Norm(row1.vel)
        vel2_mag == Norm(row2.vel)
        pos_distance == Norm(VSub(row1.pos, row2.pos))
        avg_velocity == FDiv(Add(vel1_mag, vel2_mag), Two)
        dynamic_scale == FDiv(Wp, Add(One, Mul(avg_velocity, Wv)))
    IN Exp(Mul(Neg(dynamic_scale), pos_distance))

\* mutant: the division made without the norm_q > 0 test
NormalizeQUnguarded(q) == VDiv(q, Norm(q))

\* if norm_q > 0: q /= norm_q

NormalizeQ(q) ==
    LET norm_q == Norm(q)
    IN IF Gt(norm_q, Zero) THEN VDiv(q, norm_q) ELSE q

\* mutant: the clip of line 46 left out
RotSimilarityUnclipped(row1, row2) ==
    Abs(Dot(NormalizeQ(row1.q), NormalizeQ(row2.q)))

\* mutant: only the first quaternion normalized
RotSimilarityFirstNormalized(row1, row2) ==
    Clip(Abs(Dot(NormalizeQ(row1.q), row2.q)), Zero, One)

RotSimilarity(row1, row2) ==
    LET q1 == NormalizeQ(row1.q)
        q2 == NormalizeQ(row2.q)
        dot_product == Abs(Dot(q1, q2))
    IN Clip(dot_product, Zero, One)

\* mutant: the combined score clamped to [0, 1]
ExpectedSimilarityClamped(pos_similarity, rot_similarity, Wpos, Wrot) ==
    Clip(Add(Mul(pos_similarity, Wpos), Mul(rot_similarity, Wrot)), Zero, One)

ExpectedSimilarity(pos_similarity, rot_similarity, Wpos, Wrot) ==
    Add(Mul(pos_similarity, Wpos), Mul(rot_similarity, Wrot))

\* mutant: the cross-environment return of line 22 left out
SARuleNoCrossEnv(row1, row2) ==
    IF AnchorEq(row1.anchor_id, row2.anchor_id) THEN "identity" ELSE "general"

\* which return statement of SA is taken
SARule(row1, row2) ==
    IF AnchorEq(row1.anchor_id, row2.anchor_id) THEN "identity"
    ELSE IF EnvNe(row1.env_name, row2.env_name) THEN "cross_env"
    ELSE "general"

\* the numeric cells SA converts with to_numpy(dtype=float), lines 25-37
NumericCells(row) == row.pos \o row.vel \o row.q
HasText(row) == \E k \in 1..Len(NumericCells(row)) : IsText(NumericCells(row)[k])

\* SA raises ValueError: the general rule is reached and a cell it converts
\* holds text
SARaises(row1, row2) ==
    SARule(row1, row2) = "general" /\ (HasText(row1) \/ HasText(row2))

\* mutant: q1 a view of the row, so q1 /= norm_q1 writes the table
RowAfterSAView(row) == [row EXCEPT !.q = NormalizeQ(row.q)]

\* the row of the table after SA has run on it: row[[...]] selects into a new
\* Series and to_numpy(dtype=float) converts into a new array, so q /= norm_q
\* does not reach the table
RowAfterSA(row) == row

\* mutant: the environment test made before the identity test
SACrossEnvFirst(row1, row2, Wp, Wv, Wpos, Wrot) ==
    IF EnvNe(row1.env_name, row2.env_name) THEN Zero
    ELSE IF AnchorEq(row1.anchor_id, row2.anchor_id) THEN One
    ELSE ExpectedSimilarity(PosSimilarity(row1, row2, Wp, Wv),
                            RotSimilarity(row1, row2), Wpos, Wrot)

\* mutant: results remembered per pair of environment names and reused
SAMemoByEnv(row1, row2, Wp, Wv, Wpos, Wrot) ==
    LET hits == {k \in 1..Len(sa_calls) :
                   /\ df[sa_calls[k].i + 1].env_name = row1.env_name
                   /\ df[sa_calls[k].j + 1].env_name = row2.env_name}
    IN IF hits # {}
         THEN sa_calls[CHOOSE k \in hits : \A m \in hits : k <= m].value
       ELSE IF SARule(row1, row2) = "identity" THEN One
       ELSE IF SARule(row1, row2) = "cross_env" THEN Zero
       ELSE ExpectedSimilarity(PosSimilarity(row1, row2, Wp, Wv),
                               RotSimilarity(row1, row2), Wpos, Wrot)

SA(row1, row2, Wp, Wv, Wpos, Wrot) ==
    IF SARule(row1, row2) = "identity" THEN One
    ELSE IF SARule(row1, row2) = "cross_env" THEN Zero
    ELSE ExpectedSimilarity(PosSimilarity(row1, row2, Wp, Wv),
                            RotSimilarity(row1, row2), Wpos, Wrot)

(***************************************************************************)
(* calculate_similarity_matrix (similarity_matrix.py)                      *)
(***************************************************************************)
Idx(n) == 0..(n - 1)
Cells(n) == Idx(n) \X Idx(n)
\* df.iloc[k]
ILoc(t, k) == t[k + 1]

EmptyMatrix == [c \in {} |-> Zero]

\* squareform(pdist(positions, 'euclidean')): one distance per unordered
\* pair, mirrored; the diagonal is 0 without looking at the data
PosDistMatrix(t) ==
    [c \in Cells(Len(t)) |->
        IF c[1] = c[2] THEN Zero
        ELSE LET a == IF c[1] < c[2] THEN c[1] ELSE c[2]
                 b == IF c[1] < c[2] THEN c[2] ELSE c[1]
             IN Norm(VSub(ILoc(t, a).pos, ILoc(t, b).pos))]

\* mutant: the row's own magnitude instead of the outer sum
AvgVelMatrixRowOnly(t) ==
    [c \in Cells(Len(t)) |->
        FDiv(Add(Norm(ILoc(t, c[1]).vel), Norm(ILoc(t, c[1]).vel)), Two)]

\* np.add.outer(vel_magnitudes, vel_magnitudes) / 2.0
AvgVelMatrix(t) ==
    [c \in Cells(Len(t)) |->
        FDiv(Add(Norm(ILoc(t, c[1]).vel), Norm(ILoc(t, c[2]).vel)), Two)]

PosSimilarityMatrix(t, Wp, Wv) ==
    LET pos_dist_matrix == PosDistMatrix(t)
        avg_vel_matrix == AvgVelMatrix(t)
    IN [c \in Cells(Len(t)) |->
          LET dynamic_scale == FDiv(Wp, Add(One, Mul(avg_vel_matrix[c], Wv)))
          IN Exp(Mul(Neg(dynamic_scale), pos_dist_matrix[c]))]

\* quaternions / norms, row by row, with no test of the norm
QuaternionsNormalized(t) ==
    [k \in Idx(Len(t)) |-> VDiv(ILoc(t, k).q, Norm(ILoc(t, k).q))]

\* np.abs(quaternions_normalized @ quaternions_normalized.T)
RotSimilarityMatrix(t) ==
    LET qn == QuaternionsNormalized(t)
    IN [c \in Cells(Len(t)) |-> Abs(Dot(qn[c[1]], qn[c[2]]))]

\* mutant: the two weights exchanged
CombineMatrixSwappedWeights(psm, rsm, Wpos, Wrot) ==
    [c \in DOMAIN psm |-> Add(Mul(psm[c], Wrot), Mul(rsm[c], Wpos))]

\* (pos_similarity_matrix * Wpos) + (rot_similarity_matrix * Wrot)
CombineMatrix(psm, rsm, Wpos, Wrot) ==
    [c \in DOMAIN psm |-> Add(Mul(psm[c], Wpos), Mul(rsm[c], Wrot))]

\* np.not_equal.outer(env_names, env_names)
EnvMismatchMask(t) ==
    [c \in Cells(Len(t)) |->
        EnvNe(ILoc(t, c[1]).env_name, ILoc(t, c[2]).env_name)]

\* mutant: the mask applied by multiplication, final *= ~mask
ApplyMaskByMultiply(m, mask) ==
    [c \in DOMAIN m |-> IF mask[c] THEN Mul(m[c], Zero) ELSE m[c]]

\* final_similarity_matrix[env_mismatch_mask] = 0.0
ApplyMask(m, mask) == [c \in DOMAIN m |-> IF mask[c] THEN Zero ELSE m[c]]

\* np.fill_diagonal(final_similarity_matrix, 1.0)
FillDiagonal(m) == [c \in DOMAIN m |-> IF c[1] = c[2] THEN One ELSE m[c]]

\* df['anchor_id'].tolist()
\* mutant: the frame labelled by raw row position, pandas' default index
AnchorIdsPositional(t) == [k \in 1..Len(t) |-> Fin(k - 1)]

AnchorIds(t) == [k \in 1..Len(t) |-> t[k].anchor_id]

\* pd.DataFrame(final_similarity_matrix, index=anchor_ids, columns=anchor_ids)
DataFrame(m, index, columns) ==
    [index |-> index, columns |-> columns, values |-> m]

NoFrame == DataFrame(EmptyMatrix, <<>>, <<>>)

\* the table after calculate_similarity_matrix has run on it: every array is
\* converted out of df and every assignment goes to the function's own arrays
TableAfterCall(t) == t

\* to_numpy(dtype=float) of lines 33-35 raises ValueError
VecRaises(t) == \E k \in 1..Len(t) : HasText(t[k])

\* float_format='%.4f': sign, integer part and four decimals; NaN is written
\* as the empty field
Format4(a) ==
    IF a.nan THEN <<>>
    ELSE LET m == IF a.v < 0 THEN -a.v ELSE a.v
         IN <<a.v < 0, m \div SCALE, (m % SCALE) * (10000 \div SCALE)>>

\* pd.DataFrame(similarity_matrix).to_csv(index=False, header=False, ...)
NaiveCsv(m) ==
    [written |-> TRUE, index |-> <<>>, header |-> <<>>,
     cells |-> [c \in DOMAIN m |-> Format4(m[c])]]

\* matrix_df.to_csv(index=True, header=True, ...)
VecCsv(frame) ==
    [written |-> TRUE, index |-> frame.index, header |-> frame.columns,
     cells |-> [c \in DOMAIN frame.values |-> Format4(frame.values[c])]]

NoFile == [written |-> FALSE, index |-> <<>>, header |-> <<>>,
           cells |-> [c \in {} |-> <<>>]]

(***************************************************************************)
(* State machine: the naive script, then the vectorized one, on one table  *)
(***************************************************************************)
n == Len(df)

\* the logger before its first run: privileged_data.csv does not exist
LoggerIdle ==
    /\ ENV_ID = 0
    /\ anchor_count = 0
    /\ csv_rows = <<>>
    /\ logger_pc = "setup"
    /\ capture_due = TRUE
    /\ runs = 0
    /\ last_message = "none"

Init ==
    /\ df \in Tables
    /\ hp \in HyperParams
    /\ pc = "naive_zeros"
    /\ i = 0
    /\ j = 0
    /\ similarity_matrix = EmptyMatrix
    /\ sa_calls = <<>>
    /\ pos_similarity_matrix = EmptyMatrix
    /\ rot_similarity_matrix = EmptyMatrix
    /\ final_similarity_matrix = EmptyMatrix
    /\ matrix_df = NoFrame
    /\ naive_error = "none"
    /\ vec_error = "none"
    /\ naive_file = NoFile
    /\ vec_file = NoFile
    /\ LoggerIdle

vecVars == <<pos_similarity_matrix, rot_similarity_matrix,
             final_similarity_matrix, matrix_df, vec_error, vec_file>>
naiveVars == <<i, j, similarity_matrix, sa_calls, naive_error, naive_file>>

\* similarity_matrix = np.zeros((n, n))
NaiveZeros ==
    /\ pc = "naive_zeros"
    /\ similarity_matrix' = [c \in Cells(n) |-> Zero]
    /\ i' = 0
    /\ j' = 0
    /\ pc' = "naive_loop"
    /\ UNCHANGED <<df, hp, sa_calls, naive_error, naive_file>>
    /\ UNCHANGED vecVars
    /\ UNCHANGED logVars

\* mutant: the mirrored assignment of line 90 left out
WriteCellsUpperOnly(m, a, b, s) == [m EXCEPT ![<<a, b>>] = s]

\* the cells the loop body assigns for the pair (a, b) with value s
WriteCells(m, a, b, s) ==
    [m EXCEPT ![<<a, b>>] = s, ![<<b, a>>] = s]

\* mutant: the inner loop over range(n) instead of range(i, n)
NaiveStepFullRange ==
    /\ pc = "naive_loop"
    /\ i < n
    /\ ~SARaises(ILoc(df, i), ILoc(df, j))
    /\ LET row1 == ILoc(df, i)
           row2 == ILoc(df, j)
           similarity == SA(row1, row2, hp.Wp, hp.Wv, hp.Wpos, hp.Wrot)
       IN /\ similarity_matrix' = WriteCells(similarity_matrix, i, j, similarity)
          /\ sa_calls' = Append(sa_calls,
                                [i |-> i, j |-> j,
                                 rule |-> SARule(row1, row2),
                                 value |-> similarity])
          /\ df' = [df EXCEPT ![i + 1] = RowAfterSA(row1),
                              ![j + 1] = RowAfterSA(row2)]
    /\ IF j + 1 < n
         THEN /\ j' = j + 1
              /\ i' = i
         ELSE /\ i' = i + 1
              /\ j' = 0
    /\ pc' = pc
    /\ UNCHANGED <<hp, naive_error, naive_file>>
    /\ UNCHANGED vecVars
    /\ UNCHANGED logVars

\* the control of the two for statements, lines 80-82: after a pass of the
\* body that did not raise, j and i move on to the next pair
LoopAdvance ==
    /\ pc = "naive_loop"
    /\ i < n
    /\ ~SARaises(ILoc(df, i), ILoc(df, j))
    /\ IF j + 1 < n
         THEN /\ j' = j + 1
              /\ i' = i
         ELSE /\ i' = i + 1
              /\ j' = i + 1
    /\ pc' = pc

\* one pass of the inner loop body, and the loop bookkeeping after it
NaiveStep ==
    /\ LoopAdvance
    /\ LET row1 == ILoc(df, i)
           row2 == ILoc(df, j)
           similarity == SA(row1, row2, hp.Wp, hp.Wv, hp.Wpos, hp.Wrot)
       IN /\ similarity_matrix' = WriteCells(similarity_matrix, i, j, similarity)
          /\ sa_calls' = Append(sa_calls,
                                [i |-> i, j |-> j,
                                 rule |-> SARule(row1, row2),
                                 value |-> similarity])
          /\ df' = [df EXCEPT ![i + 1] = RowAfterSA(row1),
                              ![j + 1] = RowAfterSA(row2)]
    /\ UNCHANGED <<hp, naive_error, naive_file>>
    /\ UNCHANGED vecVars
    /\ UNCHANGED logVars

\* mutant: the exception caught and the matrix filled so far saved
NaiveRaiseSavingPartial ==
    /\ pc = "naive_loop"
    /\ i < n
    /\ SARaises(ILoc(df, i), ILoc(df, j))
    /\ naive_error' = "ValueError"
    /\ naive_file' = NaiveCsv(similarity_matrix)
    /\ pc' = "vec_channels"
    /\ UNCHANGED <<df, hp, i, j, similarity_matrix, sa_calls>>
    /\ UNCHANGED vecVars
    /\ UNCHANGED logVars

\* SA raises inside the loop body: nothing catches it, the script ends with
\* the traceback and the lines after the loop never run
NaiveRaise ==
    /\ pc = "naive_loop"
    /\ i < n
    /\ SARaises(ILoc(df, i), ILoc(df, j))
    /\ naive_error' = "ValueError"
    /\ pc' = "vec_channels"
    /\ UNCHANGED <<df, hp, i, j, similarity_matrix, sa_calls, naive_file>>
    /\ UNCHANGED vecVars
    /\ UNCHANGED logVars

\* mutant: the outer loop over range(n - 1)
NaiveExitEarly ==
    /\ pc = "naive_loop"
    /\ i + 1 >= n
    /\ pc' = "naive_save"
    /\ UNCHANGED <<df, hp>>
    /\ UNCHANGED naiveVars
    /\ UNCHANGED vecVars
    /\ UNCHANGED logVars

\* range(n) is exhausted: "Calcolo completato."
NaiveExit ==
    /\ pc = "naive_loop"
    /\ i >= n
    /\ pc' = "naive_save"
    /\ UNCHANGED <<df, hp>>
    /\ UNCHANGED naiveVars
    /\ UNCHANGED vecVars
    /\ UNCHANGED logVars

\* lines 99-102: the matrix is written to similarity_matrix.csv
NaiveSave ==
    /\ pc = "naive_save"
    /\ naive_file' = NaiveCsv(similarity_matrix)
    /\ pc' = "vec_channels"
    /\ UNCHANGED <<df, hp, i, j, similarity_matrix, sa_calls, naive_error>>
    /\ UNCHANGED vecVars
    /\ UNCHANGED logVars

\* lines 29-53: extraction, position and rotation channels
VecChannels ==
    /\ pc = "vec_channels"
    /\ ~VecRaises(df)
    /\ pos_similarity_matrix' = PosSimilarityMatrix(df, hp.Wp, hp.Wv)
    /\ rot_similarity_matrix' = RotSimilarityMatrix(df)
    /\ df' = TableAfterCall(df)
    /\ pc' = "vec_combine"
    /\ UNCHANGED <<hp, final_similarity_matrix, matrix_df, vec_error, vec_file>>
    /\ UNCHANGED naiveVars
    /\ UNCHANGED logVars

\* lines 33-35 raise: calculate_similarity_matrix returns nothing and the
\* script ends before line 95
VecRaise ==
    /\ pc = "vec_channels"
    /\ VecRaises(df)
    /\ vec_error' = "ValueError"
    /\ pc' = "done"
    /\ UNCHANGED <<df, hp, pos_similarity_matrix, rot_similarity_matrix,
                   final_similarity_matrix, matrix_df, vec_file>>
    /\ UNCHANGED naiveVars
    /\ UNCHANGED logVars

\* line 57
VecCombine ==
    /\ pc = "vec_combine"
    /\ final_similarity_matrix' =
         CombineMatrix(pos_similarity_matrix, rot_similarity_matrix,
                       hp.Wpos, hp.Wrot)
    /\ pc' = "vec_mask"
    /\ UNCHANGED <<df, hp, pos_similarity_matrix, rot_similarity_matrix, matrix_df,
                   vec_error, vec_file>>
    /\ UNCHANGED naiveVars
    /\ UNCHANGED logVars

\* lines 60-61
VecMask ==
    /\ pc = "vec_mask"
    /\ final_similarity_matrix' =
         ApplyMask(final_similarity_matrix, EnvMismatchMask(df))
    /\ pc' = "vec_diag"
    /\ UNCHANGED <<df, hp, pos_similarity_matrix, rot_similarity_matrix, matrix_df,
                   vec_error, vec_file>>
    /\ UNCHANGED naiveVars
    /\ UNCHANGED logVars

\* mutant: the environment mask applied once more after the diagonal fill
VecFillDiagonalThenMask ==
    /\ pc = "vec_diag"
    /\ final_similarity_matrix' =
         ApplyMask(FillDiagonal(final_similarity_matrix), EnvMismatchMask(df))
    /\ pc' = "vec_return"
    /\ UNCHANGED <<df, hp, pos_similarity_matrix, rot_similarity_matrix, matrix_df,
                   vec_error, vec_file>>
    /\ UNCHANGED naiveVars
    /\ UNCHANGED logVars

\* line 62
VecFillDiagonal ==
    /\ pc = "vec_diag"
    /\ final_similarity_matrix' = FillDiagonal(final_similarity_matrix)
    /\ pc' = "vec_return"
    /\ UNCHANGED <<df, hp, pos_similarity_matrix, rot_similarity_matrix, matrix_df,
                   vec_error, vec_file>>
    /\ UNCHANGED naiveVars
    /\ UNCHANGED logVars

\* lines 65-67
VecReturn ==
    /\ pc = "vec_return"
    /\ matrix_df' = DataFrame(final_similarity_matrix, AnchorIds(df), AnchorIds(df))
    /\ pc' = "vec_save"
    /\ UNCHANGED <<df, hp, pos_similarity_matrix, rot_similarity_matrix,
                   final_similarity_matrix, vec_error, vec_file>>
    /\ UNCHANGED naiveVars
    /\ UNCHANGED logVars

\* lines 94-95: the frame is written to prova_similarity_matrix.csv
VecSave ==
    /\ pc = "vec_save"
    /\ vec_file' = VecCsv(matrix_df)
    /\ pc' = "done"
    /\ UNCHANGED <<df, hp, pos_similarity_matrix, rot_similarity_matrix,
                   final_similarity_matrix, matrix_df, vec_error>>
    /\ UNCHANGED naiveVars
    /\ UNCHANGED logVars

Next ==
    \/ NaiveZeros
    \/ NaiveStep
    \/ NaiveRaise
    \/ NaiveExit
    \/ NaiveSave
    \/ VecChannels
    \/ VecRaise
    \/ VecCombine
    \/ VecMask
    \/ VecFillDiagonal
    \/ VecReturn
    \/ VecSave

\* tables whose unselected columns vary from row to row
ExtrasSet ==
    { Extras(0, 0, 0, FALSE),
      Extras(150, 0, -20, TRUE),
      [ang_vel |-> <<NonNumeric, NaN, Fin(0)>>, has_collided |-> TRUE] }

KeysExtra == { <<Fin(1), "A">>, <<Fin(2), "A">>, <<Fin(2), "B">> }

ProfilesExtra ==
    { <<Vec3(0, 0, 0), Vec3(0, 0, 0), Vec4(100, 0, 0, 0)>>,
      <<Vec3(300, 400, 0), Vec3(0, 0, 200), Vec4(100, 100, 100, 0)>>,
      TextProfile }

RowsExtra ==
    { MakeRow(k, p, x) : k \in KeysExtra, p \in ProfilesExtra, x \in ExtrasSet }

TablesExtra == UNION { [1..m -> RowsExtra] : m \in 0..MaxN }

InitExtra ==
    /\ df \in TablesExtra
    /\ hp = MainHP
    /\ pc = "naive_zeros"
    /\ i = 0
    /\ j = 0
    /\ similarity_matrix = EmptyMatrix
    /\ sa_calls = <<>>
    /\ pos_similarity_matrix = EmptyMatrix
    /\ rot_similarity_matrix = EmptyMatrix
    /\ final_similarity_matrix = EmptyMatrix
    /\ matrix_df = NoFrame
    /\ naive_error = "none"
    /\ vec_error = "none"
    /\ naive_file = NoFile
    /\ vec_file = NoFile
    /\ LoggerIdle

\* the two scripts run on a table with varied unselected columns
SpecExtra == InitExtra /\ [][Next]_vars

\* same-environment records at distances 0, 5, 30 and 60 from the origin,
\* at rest or moving, and records with a NaN position, velocity or
\* quaternion cell
KeysPair == { <<Fin(1), "A">>, <<Fin(2), "A">> }

ProfilesPair ==
    { <<p, v, Vec4(100, 0, 0, 0)>> :
        p \in { Vec3(0, 0, 0), Vec3(300, 400, 0),
                Vec3(3000, 0, 0), Vec3(6000, 0, 0) },
        v \in { Vec3(0, 0, 0), Vec3(0, 0, 200) } }
      \cup { <<<<NaN, Fin(0), Fin(0)>>, Vec3(0, 0, 0), Vec4(100, 0, 0, 0)>>,
             <<Vec3(0, 0, 0), <<Fin(0), NaN, Fin(0)>>, Vec4(100, 0, 0, 0)>>,
             <<Vec3(0, 0, 0), Vec3(0, 0, 0), <<Fin(100), Fin(0), NaN, Fin(0)>>>>,
             TextProfile }

RowsPair ==
    { MakeRow(k, p, Extras(0, 0, 0, FALSE)) : k \in KeysPair, p \in ProfilesPair }

TablesPair == UNION { [1..m -> RowsPair] : m \in 0..MaxN }

InitPair ==
    /\ df \in TablesPair
    /\ hp \in HyperParams
    /\ pc = "naive_zeros"
    /\ i = 0
    /\ j = 0
    /\ similarity_matrix = EmptyMatrix
    /\ sa_calls = <<>>
    /\ pos_similarity_matrix = EmptyMatrix
    /\ rot_similarity_matrix = EmptyMatrix
    /\ final_similarity_matrix = EmptyMatrix
    /\ matrix_df = NoFrame
    /\ naive_error = "none"
    /\ vec_error = "none"
    /\ naive_file = NoFile
    /\ vec_file = NoFile
    /\ LoggerIdle

\* the two scripts run on same-environment tables of near, far and NaN rows
SpecPair == InitPair /\ [][Next]_vars

\* small tables for the run of the loop to its end
KeysLoop == { <<Fin(1), "A">>, <<Fin(2), "A">>, <<Fin(2), "B">> }

ProfilesLoop ==
    { <<Vec3(0, 0, 0), Vec3(0, 0, 0), Vec4(100, 0, 0, 0)>>,
      <<Vec3(300, 400, 0), Vec3(0, 0, 200), Vec4(100, 100, 100, 0)>>,
      TextProfile }

RowsLoop ==
    { MakeRow(k, p, Extras(0, 0, 0, FALSE)) : k \in KeysLoop, p \in ProfilesLoop }

TablesLoop == UNION { [1..m -> RowsLoop] : m \in 0..MaxN }

InitLoop ==
    /\ df \in TablesLoop
    /\ hp = MainHP
    /\ pc = "naive_zeros"
    /\ i = 0
    /\ j = 0
    /\ similarity_matrix = EmptyMatrix
    /\ sa_calls = <<>>
    /\ pos_similarity_matrix = EmptyMatrix
    /\ rot_similarity_matrix = EmptyMatrix
    /\ final_similarity_matrix = EmptyMatrix
    /\ matrix_df = NoFrame
    /\ naive_error = "none"
    /\ vec_error = "none"
    /\ naive_file = NoFile
    /\ vec_file = NoFile
    /\ LoggerIdle

\* the naive script is a sequential program: a statement of it that can
\* run does run
SpecLoop ==
    /\ InitLoop /\ [][Next]_vars
    /\ WF_vars(NaiveZeros) /\ WF_<<pc, i, j>>(LoopAdvance)
    /\ WF_vars(NaiveRaise) /\ WF_vars(NaiveExit)

Spec == Init /\ [][Next]_vars

TypeOK ==
    /\ df \in Tables
    /\ hp \in HyperParams
    /\ i \in 0..MaxN
    /\ j \in 0..MaxN
    /\ DOMAIN similarity_matrix \subseteq Cells(n)

(***************************************************************************)
(* Properties                                                              *)
(***************************************************************************)
Calls == {sa_calls[k] : k \in 1..Len(sa_calls)}
\* the SA call the loop body has just made; df and hp are never assigned,
\* so what holds of it in every state holds of every SA call
JustCalled ==
    IF pc = "naive_loop" /\ sa_calls # <<>>
      THEN {sa_calls[Len(sa_calls)]} ELSE {}
CallRow1(c) == ILoc(df, c.i)
CallRow2(c) == ILoc(df, c.j)
\* the double loop has run to its end
NaiveFinished == pc \notin {"naive_zeros", "naive_loop"} /\ naive_error = "none"
\* calculate_similarity_matrix has returned its frame
Returned == pc \in {"vec_save", "done"} /\ vec_error = "none"
Symmetric(m) == \A c \in DOMAIN m : m[c] = m[<<c[2], c[1]>>]
FiniteVec(a) == \A k \in 1..Len(a) : ~IsText(a[k]) /\ ~a[k].nan
\* every numeric cell of the row is a finite number
FiniteRow(r) ==
    ~r.anchor_id.nan /\ FiniteVec(r.pos) /\ FiniteVec(r.vel) /\ FiniteVec(r.q)
\* no anchor_id or env_name cell of the table is missing
KeysPresent ==
    \A k \in 1..n : ~df[k].anchor_id.nan /\ df[k].env_name # MissingEnv
FiniteTable == \A k \in 1..n : FiniteRow(df[k])
InUnit(a) == ~a.nan /\ 0 <= a.v /\ a.v <= SCALE
OffDiagonal == {c \in Cells(n) : c[1] # c[2]}
\* |a - b| within the rounding noise of the two computations; NaN only with NaN
Agree(a, b) ==
    \/ a.nan /\ b.nan
    \/ ~a.nan /\ ~b.nan /\ a.v - b.v <= 2 /\ b.v - a.v <= 2

\* C1: every SA call on two rows whose anchor_id compare equal returns
\* exactly 1.0 by the identity rule, whatever env_name (also different ones),
\* position, velocity, orientation and hyperparameters are.
ClaimC1 ==
    \A c \in JustCalled :
        AnchorEq(CallRow1(c).anchor_id, CallRow2(c).anchor_id)
            => c.value = One /\ c.rule = "identity"

\* an SA call on two different rows with equal anchor_id, different env_name
\* and different telemetry, under the heavy weights, has returned 1.0
WitnessC1 ==
    \E c \in Calls :
        /\ c.i # c.j
        /\ AnchorEq(CallRow1(c).anchor_id, CallRow2(c).anchor_id)
        /\ EnvNe(CallRow1(c).env_name, CallRow2(c).env_name)
        /\ CallRow1(c).pos # CallRow2(c).pos
        /\ CallRow1(c).q # CallRow2(c).q
        /\ hp = HeavyHP
        /\ c.value = One

\* C2: every SA call on two rows with different anchor_id and different
\* env_name returns exactly 0.0 by the cross-environment return, which is
\* taken before any numeric field is read.
ClaimC2 ==
    \A c \in JustCalled :
        /\ ~AnchorEq(CallRow1(c).anchor_id, CallRow2(c).anchor_id)
        /\ EnvNe(CallRow1(c).env_name, CallRow2(c).env_name)
        => c.value = Zero /\ c.rule = "cross_env"

\* an SA call on a row with a NaN position and a row with a zero-norm
\* quaternion, of different anchor_id and env_name, has returned 0.0
WitnessC2 ==
    \E c \in Calls :
        /\ ~AnchorEq(CallRow1(c).anchor_id, CallRow2(c).anchor_id)
        /\ EnvNe(CallRow1(c).env_name, CallRow2(c).env_name)
        /\ ~FiniteVec(CallRow1(c).pos)
        /\ Norm(CallRow2(c).q) = Zero
        /\ c.value = Zero

\* C3: when both scripts have finished on the same table, the naive matrix
\* and the matrix returned by calculate_similarity_matrix agree on every
\* entry (within rounding noise); stated for the tables in which every
\* anchor_id and env_name is present, where it already fails.
ClaimC3 ==
    Returned /\ KeysPresent =>
        \A c \in Cells(n) : Agree(similarity_matrix[c], matrix_df.values[c])

\* C4: when the double loop has finished, the naive matrix is symmetric,
\* SA was called exactly once per unordered pair (never with i > j) and the
\* value of that one call is in both cells.
ClaimC4 ==
    NaiveFinished =>
        /\ Symmetric(similarity_matrix)
        /\ \A c \in Calls : c.i <= c.j
        /\ \A a \in Idx(n), b \in Idx(n) :
              a <= b =>
                /\ Cardinality({k \in 1..Len(sa_calls) :
                                  sa_calls[k].i = a /\ sa_calls[k].j = b}) = 1
                /\ \A c \in Calls :
                      c.i = a /\ c.j = b =>
                        /\ similarity_matrix[<<a, b>>] = c.value
                        /\ similarity_matrix[<<b, a>>] = c.value

\* the loop has finished on two rows whose pair took the general rule and
\* both mirrored cells hold its value, neither 0 nor 1
WitnessC4 ==
    /\ NaiveFinished
    /\ n >= 2
    /\ \E c \in Calls :
          /\ c.i = 0 /\ c.j = 1 /\ c.rule = "general"
          /\ ~c.value.nan /\ c.value # Zero /\ c.value # One
          /\ similarity_matrix[<<1, 0>>] = c.value
          /\ similarity_matrix[<<0, 1>>] = c.value

\* C5: the distance, average-velocity, rotation and environment-mask
\* matrices are symmetric, and so is the final matrix before and after the
\* mask and the diagonal fill, and the returned matrix.
ClaimC5 ==
    /\ pc = "vec_combine" =>
          /\ Symmetric(PosDistMatrix(df))
          /\ Symmetric(AvgVelMatrix(df))
          /\ Symmetric(EnvMismatchMask(df))
    /\ Symmetric(pos_similarity_matrix)
    /\ Symmetric(rot_similarity_matrix)
    /\ Symmetric(final_similarity_matrix)
    /\ Symmetric(matrix_df.values)

\* calculate_similarity_matrix has returned for two same-environment rows
\* of different speed and position; their entry is neither 0, 1 nor NaN
WitnessC5 ==
    /\ Returned
    /\ n >= 2
    /\ Norm(ILoc(df, 0).vel) # Norm(ILoc(df, 1).vel)
    /\ ~EnvNe(ILoc(df, 0).env_name, ILoc(df, 1).env_name)
    /\ ~matrix_df.values[<<0, 1>>].nan
    /\ matrix_df.values[<<0, 1>>] \notin {Zero, One}
    /\ matrix_df.values[<<0, 1>>] = matrix_df.values[<<1, 0>>]

\* C6: when both scripts have finished, every diagonal entry of the naive
\* matrix and of the returned matrix is exactly 1.0.
ClaimC6 ==
    Returned =>
        \A k \in Idx(n) :
            /\ similarity_matrix[<<k, k>>] = One
            /\ matrix_df.values[<<k, k>>] = One

\* C7: in the returned matrix every off-diagonal entry whose rows differ in
\* env_name is exactly 0.0, whatever the formula gave for the cell.
ClaimC7 ==
    Returned =>
        \A c \in OffDiagonal :
            EnvNe(ILoc(df, c[1]).env_name, ILoc(df, c[2]).env_name)
                => matrix_df.values[c] = Zero

\* the matrix was returned with an off-diagonal cross-environment cell whose
\* combined value was NaN and is now 0.0
WitnessC7 ==
    /\ Returned
    /\ \E c \in OffDiagonal :
          /\ EnvNe(ILoc(df, c[1]).env_name, ILoc(df, c[2]).env_name)
          /\ CombineMatrix(pos_similarity_matrix, rot_similarity_matrix,
                           hp.Wpos, hp.Wrot)[c].nan
          /\ matrix_df.values[c] = Zero

\* C8: when both scripts have finished, every entry whose two rows have
\* equal anchor_id is exactly 1.0 in the naive and in the returned matrix.
ClaimC8 ==
    Returned =>
        \A c \in Cells(n) :
            AnchorEq(ILoc(df, c[1]).anchor_id, ILoc(df, c[2]).anchor_id)
                => /\ similarity_matrix[c] = One
                   /\ matrix_df.values[c] = One

WeightsWithinUnit ==
    /\ InUnit(hp.Wpos) /\ InUnit(hp.Wrot)
    /\ InUnit(Add(hp.Wpos, hp.Wrot))
    /\ ~hp.Wp.nan /\ hp.Wp.v >= 0
    /\ ~hp.Wv.nan /\ hp.Wv.v >= 0

ExactUnit(q) == FiniteVec(q) /\ Dot(q, q) = One

\* C10: for same-environment rows of different anchor_id the score is
\* Wpos * pos_sim + Wrot * rot_sim of the path's two channels, unclamped and
\* not renormalized; with distance 0 and identical unit quaternions it is
\* Wpos + Wrot, on both paths.
ClaimC10 ==
    /\ \A c \in JustCalled :
          c.rule = "general" =>
            /\ c.value =
                 Add(Mul(PosSimilarity(CallRow1(c), CallRow2(c), hp.Wp, hp.Wv),
                         hp.Wpos),
                     Mul(RotSimilarity(CallRow1(c), CallRow2(c)), hp.Wrot))
            /\ ( /\ FiniteRow(CallRow1(c)) /\ FiniteRow(CallRow2(c))
                 /\ CallRow1(c).pos = CallRow2(c).pos
                 /\ CallRow1(c).q = CallRow2(c).q
                 /\ ExactUnit(CallRow1(c).q) )
               => c.value = Add(hp.Wpos, hp.Wrot)
    /\ Returned =>
          \A c \in OffDiagonal :
            LET r1 == ILoc(df, c[1])
                r2 == ILoc(df, c[2])
            IN ~AnchorEq(r1.anchor_id, r2.anchor_id)
                 /\ ~EnvNe(r1.env_name, r2.env_name) =>
                   /\ matrix_df.values[c] =
                        Add(Mul(pos_similarity_matrix[c], hp.Wpos),
                            Mul(rot_similarity_matrix[c], hp.Wrot))
                   /\ ( /\ FiniteRow(r1) /\ FiniteRow(r2)
                        /\ r1.pos = r2.pos /\ r1.q = r2.q /\ ExactUnit(r1.q) )
                      => matrix_df.values[c] = Add(hp.Wpos, hp.Wrot)

\* both scripts have finished under weights of sum 1.4 on two
\* same-environment rows of different anchor_id at distance 0 with the same
\* unit quaternion: both paths scored 1.4
WitnessC10 ==
    /\ Returned
    /\ n >= 2
    /\ Add(hp.Wpos, hp.Wrot) = Fin(140)
    /\ LET r1 == ILoc(df, 0)
           r2 == ILoc(df, 1)
       IN /\ ~AnchorEq(r1.anchor_id, r2.anchor_id)
          /\ ~EnvNe(r1.env_name, r2.env_name)
          /\ FiniteRow(r1) /\ r1.pos = r2.pos /\ r1.q = r2.q /\ ExactUnit(r1.q)
    /\ similarity_matrix[<<0, 1>>] = Fin(140)
    /\ matrix_df.values[<<0, 1>>] = Fin(140)

\* a quaternion whose four components are all 0.0
ZeroNorm(q) == FiniteVec(q) /\ Norm(q) = Zero

\* C11: in SA a quaternion of norm zero is not divided and stays the zero
\* vector, the call returns without error, and for a same-environment pair
\* of different anchor_id (the other quaternion finite) the rotation channel
\* is 0, so the result is Wpos * pos_sim
ClaimC11 ==
    \A c \in JustCalled :
       ( /\ c.rule = "general"
         /\ FiniteVec(CallRow1(c).q) /\ FiniteVec(CallRow2(c).q)
         /\ (ZeroNorm(CallRow1(c).q) \/ ZeroNorm(CallRow2(c).q)) )
       => /\ \A q \in {CallRow1(c).q, CallRow2(c).q} :
               ZeroNorm(q) => NormalizeQ(q) = q
          /\ RotSimilarity(CallRow1(c), CallRow2(c)) = Zero
          /\ c.value =
               Mul(PosSimilarity(CallRow1(c), CallRow2(c), hp.Wp, hp.Wv), hp.Wpos)
          /\ naive_error = "none"

\* SA has just returned 0.6 * pos_sim for a zero quaternion paired with a
\* unit quaternion at distance 0 in one environment
WitnessC11 ==
    \E c \in JustCalled :
       /\ c.rule = "general"
       /\ ZeroNorm(CallRow1(c).q)
       /\ ExactUnit(CallRow2(c).q)
       /\ FiniteRow(CallRow1(c)) /\ FiniteRow(CallRow2(c))
       /\ CallRow1(c).pos = CallRow2(c).pos
       /\ hp = MainHP
       /\ c.value = Fin(60)

\* C12: in calculate_similarity_matrix a row whose quaternion has norm zero
\* has rotation similarity 0 with every other row, and its
\* same-environment off-diagonal entries are Wpos * pos_sim, as on the
\* naive path
ClaimC12 ==
    Returned =>
      \A c \in OffDiagonal :
        LET r1 == ILoc(df, c[1])
            r2 == ILoc(df, c[2])
        IN ( /\ FiniteRow(r1) /\ FiniteRow(r2)
             /\ ~EnvNe(r1.env_name, r2.env_name)
             /\ (ZeroNorm(r1.q) \/ ZeroNorm(r2.q)) )
           => /\ rot_similarity_matrix[c] = Zero
              /\ matrix_df.values[c] = Mul(pos_similarity_matrix[c], hp.Wpos)

\* C13: on both paths a table of no rows gives an empty 0x0 matrix without
\* an error, and a table of one row gives a 1x1 matrix whose entry is 1.0
ClaimC13 ==
    /\ n = 0 =>
          /\ naive_error = "none" /\ vec_error = "none"
          /\ NaiveFinished => similarity_matrix = EmptyMatrix
          /\ Returned => matrix_df = NoFrame
    /\ n = 1 =>
          /\ NaiveFinished =>
                /\ DOMAIN similarity_matrix = Cells(1)
                /\ similarity_matrix[<<0, 0>>] = One
          /\ Returned =>
                /\ DOMAIN matrix_df.values = Cells(1)
                /\ matrix_df.values[<<0, 0>>] = One

\* the off-diagonal entry calculate_similarity_matrix gives the pair
\* (r1, r2) when the two rows are the whole table
PairEntry(r1, r2) ==
    LET t == <<r1, r2>>
    IN FillDiagonal(
         ApplyMask(CombineMatrix(PosSimilarityMatrix(t, hp.Wp, hp.Wv),
                                 RotSimilarityMatrix(t), hp.Wpos, hp.Wrot),
                   EnvMismatchMask(t)))[<<0, 1>>]

\* C14: the frame returned by calculate_similarity_matrix has N rows and N
\* columns, its k-th row label and k-th column label are the anchor_id of
\* the k-th input row, and entry (k, l) is the similarity of input rows k
\* and l
ClaimC14 ==
    /\ Returned =>
          /\ DOMAIN matrix_df.values = Cells(n)
          /\ Len(matrix_df.index) = n
          /\ Len(matrix_df.columns) = n
          /\ \A k \in 1..n :
                /\ matrix_df.index[k] = df[k].anchor_id
                /\ matrix_df.columns[k] = df[k].anchor_id
    /\ pc = "vec_save" =>
          \A c \in Cells(n) :
            matrix_df.values[c] =
              IF c[1] = c[2] THEN One
              ELSE PairEntry(ILoc(df, c[1]), ILoc(df, c[2]))

\* a frame was returned for two same-environment rows whose anchor_id are
\* 2 then 1: the labels are 2, 1 and entry (0, 1) is a general-rule score
WitnessC14 ==
    /\ Returned
    /\ n = 2
    /\ AnchorIds(df) = <<Fin(2), Fin(1)>>
    /\ matrix_df.index = <<Fin(2), Fin(1)>>
    /\ matrix_df.columns = <<Fin(2), Fin(1)>>
    /\ FiniteTable
    /\ ~EnvNe(df[1].env_name, df[2].env_name)
    /\ df[1].pos # df[2].pos
    /\ InUnit(matrix_df.values[<<0, 1>>])
    /\ matrix_df.values[<<0, 1>>] \notin {Zero, One}

\* some record holds text in one of its pos_*, vel_* or q_* cells
SomeNonNumeric == \E k \in 1..n : HasText(df[k])

\* C15: on both paths a batch with a non-numeric required field fails
\* before any matrix entry is computed: SA computes nothing, neither file is
\* written, no frame is returned and each script ends with an error
ClaimC15 ==
    SomeNonNumeric =>
      /\ sa_calls = <<>>
      /\ ~naive_file.written
      /\ pc \notin {"naive_zeros", "naive_loop"} => naive_error # "none"
      /\ matrix_df = NoFrame
      /\ ~vec_file.written
      /\ pc = "done" => vec_error # "none"

\* every cell of the naive matrix holds the result of an SA call on its pair
AllEntriesComputed ==
    \A c \in Cells(n) :
      \E k \in 1..Len(sa_calls) :
        /\ {sa_calls[k].i, sa_calls[k].j} = {c[1], c[2]}
        /\ similarity_matrix[c] = sa_calls[k].value

\* C16: a script that raised wrote no file and returned no frame, and a
\* file that was written holds all N x N entries, each computed before the
\* write
ClaimC16 ==
    /\ naive_error # "none" => ~naive_file.written
    /\ vec_error # "none" => ~vec_file.written /\ matrix_df = NoFrame
    /\ naive_file.written =>
          /\ AllEntriesComputed
          /\ naive_file = NaiveCsv(similarity_matrix)
          /\ DOMAIN naive_file.cells = Cells(n)
    /\ vec_file.written =>
          /\ pc = "done"
          /\ vec_file = VecCsv(matrix_df)
          /\ DOMAIN vec_file.cells = Cells(n)
          /\ matrix_df.values = final_similarity_matrix

\* both scripts have ended on a ValueError, the naive one after SA had
\* already filled an entry: neither file exists and no frame was returned
WitnessC16 ==
    /\ pc = "done"
    /\ naive_error = "ValueError"
    /\ vec_error = "ValueError"
    /\ sa_calls # <<>>
    /\ \E c \in Cells(n) : similarity_matrix[c] = One
    /\ ~naive_file.written
    /\ ~vec_file.written
    /\ matrix_df = NoFrame

PairBefore(a, b) == a.i < b.i \/ (a.i = b.i /\ a.j < b.j)

\* C19: the naive loop calls SA on pairs (i, j) with i <= j only, in the
\* order of the nested ranges and so never twice on one pair, N(N+1)/2
\* times when it runs to its end, and right after each call the result is
\* in both M[i][j] and M[j][i]
ClaimC19 ==
    /\ \A k \in 1..Len(sa_calls) :
          /\ sa_calls[k].i \in Idx(n) /\ sa_calls[k].j \in Idx(n)
          /\ sa_calls[k].i <= sa_calls[k].j
          /\ k > 1 => PairBefore(sa_calls[k - 1], sa_calls[k])
    /\ 2 * Len(sa_calls) <= n * (n + 1)
    /\ NaiveFinished => 2 * Len(sa_calls) = n * (n + 1)
    /\ \A c \in JustCalled :
          /\ similarity_matrix[<<c.i, c.j>>] = c.value
          /\ similarity_matrix[<<c.j, c.i>>] = c.value

\* the loop has run to its end on two rows: three calls, on (0,0), (0,1)
\* and (1,1), and the value of the call on (0,1) is in both mirrored cells
WitnessC19 ==
    /\ NaiveFinished
    /\ n = 2
    /\ Len(sa_calls) = 3
    /\ <<sa_calls[1].i, sa_calls[1].j>> = <<0, 0>>
    /\ <<sa_calls[2].i, sa_calls[2].j>> = <<0, 1>>
    /\ <<sa_calls[3].i, sa_calls[3].j>> = <<1, 1>>
    /\ sa_calls[2].rule = "general"
    /\ similarity_matrix[<<0, 1>>] = sa_calls[2].value
    /\ similarity_matrix[<<1, 0>>] = sa_calls[2].value

\* the cells whose two rows differ in env_name, as != decides it
Masked == {c \in Cells(n) : EnvMismatchMask(df)[c]}
Diagonal == {c \in Cells(n) : c[1] = c[2]}

\* C20: in calculate_similarity_matrix the mask step comes first and sets
\* exactly the cells whose rows differ in env_name, the diagonal fill comes
\* after it and sets exactly the cells (i, i), and the frame returned keeps
\* Wpos * pos_sim + Wrot * rot_sim in every other cell
ClaimC20 ==
    [][ /\ pc = "vec_mask" =>
             /\ pc' = "vec_diag"
             /\ \A c \in Cells(n) :
                   final_similarity_matrix'[c] =
                     IF c \in Masked THEN Zero ELSE final_similarity_matrix[c]
        /\ pc = "vec_diag" =>
             /\ pc' = "vec_return"
             /\ \A c \in Cells(n) :
                   final_similarity_matrix'[c] =
                     IF c \in Diagonal THEN One ELSE final_similarity_matrix[c]
        /\ pc = "vec_return" =>
             \A c \in Cells(n) :
               matrix_df'.values[c] =
                 IF c \in Diagonal THEN One
                 ELSE IF c \in Masked THEN Zero
                 ELSE Add(Mul(pos_similarity_matrix[c], hp.Wpos),
                          Mul(rot_similarity_matrix[c], hp.Wrot)) ]_vars

\* a frame was returned for two rows of which the first has no env_name:
\* its diagonal cell was masked to 0 and then filled with 1.0, and cell
\* (0, 1), whose weighted sum was not 0, was masked to 0 and stayed 0
WitnessC20 ==
    /\ Returned
    /\ n = 2
    /\ df[1].env_name = MissingEnv
    /\ <<0, 0>> \in Masked
    /\ <<0, 1>> \in Masked
    /\ Add(Mul(pos_similarity_matrix[<<0, 1>>], hp.Wpos),
           Mul(rot_similarity_matrix[<<0, 1>>], hp.Wrot)) # Zero
    /\ matrix_df.values[<<0, 0>>] = One
    /\ matrix_df.values[<<0, 1>>] = Zero
    /\ matrix_df.values[<<1, 1>>] = One

\* the record with its unselected columns reset
Strip(row) == [row EXCEPT !.ang_vel = Vec3(0, 0, 0), !.has_collided = FALSE]
StripTable(t) == [k \in 1..Len(t) |-> Strip(t[k])]

\* the frame calculate_similarity_matrix returns for table t
FrameOf(t) ==
    DataFrame(
      FillDiagonal(
        ApplyMask(CombineMatrix(PosSimilarityMatrix(t, hp.Wp, hp.Wv),
                                RotSimilarityMatrix(t), hp.Wpos, hp.Wrot),
                  EnvMismatchMask(t))),
      AnchorIds(t), AnchorIds(t))

\* C17: the values of ang_vel_x, ang_vel_y, ang_vel_z and has_collided do
\* not reach any result: every SA call returns (or raises) as it does on
\* the records with these columns reset, and calculate_similarity_matrix
\* returns (or raises) as it does on the table with them reset, so two
\* tables that differ in these columns only give the same values
ClaimC17 ==
    /\ \A c \in JustCalled :
          /\ c.rule = SARule(Strip(CallRow1(c)), Strip(CallRow2(c)))
          /\ c.value = SA(Strip(CallRow1(c)), Strip(CallRow2(c)),
                          hp.Wp, hp.Wv, hp.Wpos, hp.Wrot)
    /\ (pc = "naive_loop" /\ i < n) =>
          SARaises(ILoc(df, i), ILoc(df, j))
            = SARaises(Strip(ILoc(df, i)), Strip(ILoc(df, j)))
    /\ pc = "vec_channels" => VecRaises(df) = VecRaises(StripTable(df))
    /\ pc = "vec_save" => matrix_df = FrameOf(StripTable(df))

\* both scripts have finished on a table whose first row has non-zero,
\* partly unreadable angular velocity cells and the collision flag set; SA
\* scored it against another row by the general rule
WitnessC17 ==
    /\ Returned
    /\ \E c \in Calls :
         /\ c.rule = "general"
         /\ CallRow1(c).has_collided
         /\ HasText(Strip(CallRow1(c))) = FALSE
         /\ \E k \in 1..3 : IsText(CallRow1(c).ang_vel[k])
         /\ CallRow2(c).ang_vel = Vec3(150, 0, -20)
         /\ c.value \notin {Zero, One}
         /\ matrix_df.values[<<c.i, c.j>>] \notin {Zero, One}

\* C21: on both paths the rotation similarity of every pair lies in [0, 1]
\* when it is weighted: SA's clipped |dot| and every entry of the absolute
\* Gram matrix of calculate_similarity_matrix (finite quaternions of
\* non-zero norm)
ClaimC21 ==
    /\ \A c \in JustCalled :
          ( /\ c.rule = "general"
            /\ FiniteVec(CallRow1(c).q) /\ FiniteVec(CallRow2(c).q) )
          => InUnit(RotSimilarity(CallRow1(c), CallRow2(c)))
    /\ pc = "vec_combine" =>
          \A c \in Cells(n) :
            ( /\ FiniteVec(ILoc(df, c[1]).q) /\ FiniteVec(ILoc(df, c[2]).q)
              /\ ~ZeroNorm(ILoc(df, c[1]).q) /\ ~ZeroNorm(ILoc(df, c[2]).q) )
            => InUnit(rot_similarity_matrix[c])

\* the record with all four quaternion components negated
NegQ(row) == [row EXCEPT !.q = [k \in 1..Len(row.q) |-> Neg(row.q[k])]]
NegRow(t, k) == [t EXCEPT ![k] = NegQ(t[k])]

\* C22: replacing the quaternion q of one record by -q changes neither the
\* value SA returns for a pair containing the record nor any entry of the
\* frame calculate_similarity_matrix returns
ClaimC22 ==
    /\ \A c \in JustCalled :
          /\ c.value = SA(NegQ(CallRow1(c)), CallRow2(c),
                          hp.Wp, hp.Wv, hp.Wpos, hp.Wrot)
          /\ c.value = SA(CallRow1(c), NegQ(CallRow2(c)),
                          hp.Wp, hp.Wv, hp.Wpos, hp.Wrot)
    /\ pc = "vec_save" =>
          \A k \in 1..n : matrix_df = FrameOf(NegRow(df, k))

\* both scripts scored two same-environment rows of different anchor_id
\* whose quaternions are (1, 1, 1, 0) and (1, 0, 0, 0), a pair whose dot
\* product changes sign with either quaternion
WitnessC22 ==
    /\ Returned
    /\ n = 2
    /\ df[1].q = Vec4(100, 100, 100, 0)
    /\ df[2].q = Vec4(100, 0, 0, 0)
    /\ Dot(NormalizeQ(NegQ(df[1]).q), NormalizeQ(df[2].q)).v < 0
    /\ \E c \in Calls : c.i = 0 /\ c.j = 1 /\ c.rule = "general"
    /\ \E k \in 1..Len(df[1].pos) : ~df[1].pos[k].nan
    /\ FiniteRow(df[1]) /\ FiniteRow(df[2])
    /\ matrix_df.values[<<0, 1>>] \notin {Zero, One}

\* np.linalg.norm(pos1 - pos2)
Distance(r1, r2) == Norm(VSub(r1.pos, r2.pos))

\* the records that differ from r in position only
Moved(r) ==
    { a \in RowsPair :
        /\ a.anchor_id = r.anchor_id /\ a.env_name = r.env_name
        /\ a.vel = r.vel /\ a.q = r.q /\ FiniteVec(a.pos) }

\* the general-rule calls on two records without a NaN or text cell
FiniteGeneral ==
    { c \in JustCalled :
        /\ c.rule = "general"
        /\ FiniteRow(CallRow1(c)) /\ FiniteRow(CallRow2(c)) }

HasNaN(row) ==
    \E k \in 1..Len(NumericCells(row)) : NumericCells(row)[k].nan

\* C24: for a same-environment pair of different anchor_id with a NaN in a
\* position, velocity or quaternion cell of either record, SA returns NaN
\* without raising, the entry of the frame returned by
\* calculate_similarity_matrix is NaN, and the files hold no number for it
ClaimC24 ==
    /\ \A c \in JustCalled :
          (c.rule = "general" /\ (HasNaN(CallRow1(c)) \/ HasNaN(CallRow2(c))))
          => /\ c.value = NaN
             /\ similarity_matrix[<<c.i, c.j>>] = NaN
             /\ similarity_matrix[<<c.j, c.i>>] = NaN
             /\ naive_error = "none"
    /\ pc \in {"vec_save", "done"} =>
          \A c \in OffDiagonal :
            LET r1 == ILoc(df, c[1])
                r2 == ILoc(df, c[2])
            IN ( /\ ~AnchorEq(r1.anchor_id, r2.anchor_id)
                 /\ ~EnvNe(r1.env_name, r2.env_name)
                 /\ (HasNaN(r1) \/ HasNaN(r2)) )
               => /\ vec_error = "none" => matrix_df.values[c] = NaN
                  /\ vec_error = "none" <=> ~VecRaises(df)
                  /\ vec_file.written => vec_file.cells[c] = <<>>
                  /\ naive_file.written => naive_file.cells[c] = <<>>

\* both scripts have finished without error on two rows whose second has a
\* NaN quaternion component: entry (0, 1) is NaN in both matrices
WitnessC24 ==
    /\ pc = "done"
    /\ naive_error = "none" /\ vec_error = "none"
    /\ n = 2
    /\ FiniteRow(df[1])
    /\ \E k \in 1..Len(df[2].q) : df[2].q[k].nan
    /\ FiniteVec(df[2].pos) /\ FiniteVec(df[2].vel)
    /\ \E c \in Calls : c.i = 0 /\ c.j = 1 /\ c.rule = "general"
    /\ similarity_matrix[<<0, 1>>] = NaN
    /\ matrix_df.values[<<0, 1>>] = NaN
    /\ naive_file.cells[<<0, 1>>] = <<>>

\* the score of a pair as a function of the two records and the
\* hyperparameters h alone
ScoreOf(row1, row2, h) ==
    IF SARule(row1, row2) = "identity" THEN One
    ELSE IF SARule(row1, row2) = "cross_env" THEN Zero
    ELSE ExpectedSimilarity(PosSimilarity(row1, row2, h.Wp, h.Wv),
                            RotSimilarity(row1, row2), h.Wpos, h.Wrot)

\* the naive matrix as a function of the table and the hyperparameters
NaiveMatrixOf(t, h) ==
    [c \in Cells(Len(t)) |->
       IF c[1] <= c[2] THEN ScoreOf(ILoc(t, c[1]), ILoc(t, c[2]), h)
                       ELSE ScoreOf(ILoc(t, c[2]), ILoc(t, c[1]), h)]

\* the naive script fails on table t
NaiveFails(t) ==
    \E a \in Idx(Len(t)), b \in Idx(Len(t)) :
      a <= b /\ SARaises(ILoc(t, a), ILoc(t, b))

ClaimC27 ==
    /\ \A c \in JustCalled :
          /\ SARule(CallRow2(c), CallRow1(c)) = c.rule
          /\ SA(CallRow2(c), CallRow1(c), hp.Wp, hp.Wv, hp.Wpos, hp.Wrot)
               = c.value
    /\ (pc = "naive_loop" /\ i < n) =>
          SARaises(ILoc(df, j), ILoc(df, i)) = SARaises(ILoc(df, i), ILoc(df, j))

\* SA has scored by the general rule two records that differ in position,
\* speed and orientation, the first with a quaternion of norm 1 and the
\* second with one of norm sqrt(3)
WitnessC27 ==
    \E c \in JustCalled :
      /\ c.rule = "general"
      /\ FiniteRow(CallRow1(c)) /\ FiniteRow(CallRow2(c))
      /\ CallRow1(c).pos # CallRow2(c).pos
      /\ CallRow1(c).vel # CallRow2(c).vel
      /\ CallRow1(c).q = Vec4(100, 0, 0, 0)
      /\ CallRow2(c).q = Vec4(100, 100, 100, 0)
      /\ c.value = SA(CallRow2(c), CallRow1(c), hp.Wp, hp.Wv, hp.Wpos, hp.Wrot)
      /\ c.value \notin {Zero, One}

\* every anchor_id of the table is present and no two rows share one
DistinctIds ==
    \A k \in 1..n :
      /\ ~df[k].anchor_id.nan
      /\ \A l \in 1..n : k # l => df[k].anchor_id # df[l].anchor_id

NoZeroNorm == \A k \in 1..n : ~ZeroNorm(df[k].q)

\* C28: on a table of distinct anchor_id without a zero-norm quaternion,
\* every entry (i, j) of the frame returned by calculate_similarity_matrix
\* is SA(row_i, row_j) up to rounding: 1.0 on the diagonal, 0.0 where the
\* env_name differ, the weighted sum of the two channels elsewhere
ClaimC28 ==
    (pc = "vec_save" /\ DistinctIds /\ NoZeroNorm) =>
      \A c \in Cells(n) :
        LET r1 == ILoc(df, c[1])
            r2 == ILoc(df, c[2])
        IN /\ Agree(matrix_df.values[c], ScoreOf(r1, r2, hp))
           /\ c[1] = c[2] => matrix_df.values[c] = One
           /\ (c[1] # c[2] /\ EnvNe(r1.env_name, r2.env_name))
                => matrix_df.values[c] = Zero
           /\ (c[1] # c[2] /\ ~EnvNe(r1.env_name, r2.env_name))
                => Agree(matrix_df.values[c],
                         ExpectedSimilarity(PosSimilarity(r1, r2, hp.Wp, hp.Wv),
                                            RotSimilarity(r1, r2),
                                            hp.Wpos, hp.Wrot))

\* a frame was returned for two moving same-environment rows of anchor_id
\* 1 and 2 with quaternions of norm sqrt(3), 5 apart: entry (0, 1) is the
\* general-rule score SA gave the pair, neither 0 nor 1
WitnessC28 ==
    /\ pc = "vec_save"
    /\ DistinctIds /\ NoZeroNorm /\ FiniteTable
    /\ n = 2
    /\ ~EnvNe(df[1].env_name, df[2].env_name)
    /\ Distance(df[1], df[2]) = Fin(500)
    /\ df[2].q = Vec4(100, 100, 100, 0)
    /\ Norm(df[2].vel) = Two
    /\ Agree(matrix_df.values[<<0, 1>>], similarity_matrix[<<0, 1>>])
    /\ InUnit(matrix_df.values[<<0, 1>>])
    /\ matrix_df.values[<<0, 1>>] \notin {Zero, One}

\* the calls the loop has made on the pair of cell c
CallsOn(c) ==
    {k \in 1..Len(sa_calls) : {sa_calls[k].i, sa_calls[k].j} = {c[1], c[2]}}

\* C29: the double loop ends; when it ends without an error it has made
\* exactly N outer iterations and every one of the N x N cells has been
\* assigned by exactly one call, a cell holding 0 only where SA returned 0;
\* and an off-diagonal cell, once assigned, is never written again
ClaimC29 ==
    /\ <>(pc \notin {"naive_zeros", "naive_loop"})
    /\ [](pc = "naive_save" =>
             /\ i = n
             /\ \A c \in Cells(n) :
                   /\ Cardinality(CallsOn(c)) = 1
                   /\ \A k \in CallsOn(c) :
                         similarity_matrix[c] = sa_calls[k].value)
    /\ [][\A c \in OffDiagonal :
             CallsOn(c) # {} => similarity_matrix'[c] = similarity_matrix[c]]_vars

\* the loop has ended after two outer iterations on a table of two rows of
\* different environments: the off-diagonal cells hold the 0 SA returned
\* and the diagonal holds 1
WitnessC29 ==
    /\ pc = "naive_save"
    /\ n = 2
    /\ i = 2
    /\ Len(sa_calls) = 3
    /\ sa_calls[2].rule = "cross_env"
    /\ sa_calls[2].value = Zero
    /\ similarity_matrix[<<0, 1>>] = Zero
    /\ similarity_matrix[<<1, 0>>] = Zero
    /\ similarity_matrix[<<0, 0>>] = One
    /\ similarity_matrix[<<1, 1>>] = One

\* ---------------------------------------------------------------------------
\* The telemetry logger (src/data_collection/generatepp.py, main)
\* ---------------------------------------------------------------------------

\* anchors collected by one run: 2500 in the source, scaled down here
NUM_ANCHORS_PER_RUN == 2

\* how many times the logger is started on the same privileged_data.csv
MaxRuns == 3

\* ENV_ID is edited by hand before each run; values 0..MaxEnvId are tried
MaxEnvId == 2

\* a mask builder that also rejects a valid segmentation mask
CreateObstacleMaskRejecting(seg_mask) ==
    "None"

\* create_obstacle_mask: None only for a missing segmentation mask
CreateObstacleMask(seg_mask) ==
    IF seg_mask = "None" THEN "None" ELSE "mask"

\* what get_synchronized_images can hand back for each of its two images
Images == {"None", "image"}

start_anchor_index == ENV_ID * NUM_ANCHORS_PER_RUN

\* main up to the loop: the csv is opened in append mode (its rows are
\* kept), the counters of the run are reset
LoggerStart(env) ==
    /\ logger_pc \in {"setup", "landed"}
    /\ runs < MaxRuns
    /\ ENV_ID' = env
    /\ runs' = runs + 1
    /\ anchor_count' = 0
    /\ capture_due' = TRUE
    /\ logger_pc' = "loop"
    /\ last_message' = "start"
    /\ UNCHANGED csv_rows
    /\ UNCHANGED <<df, hp, pc, naiveVars, vecVars>>

\* one loop iteration that only moves the drone: the capture interval has
\* not elapsed yet
LoggerMove ==
    /\ logger_pc = "loop"
    /\ anchor_count < NUM_ANCHORS_PER_RUN
    /\ ~capture_due
    /\ capture_due' = TRUE
    /\ last_message' = "moved"
    /\ UNCHANGED <<ENV_ID, anchor_count, csv_rows, logger_pc, runs>>
    /\ UNCHANGED <<df, hp, pc, naiveVars, vecVars>>

\* one loop iteration whose capture returns a missing image or mask
LoggerSkipInvalid ==
    /\ logger_pc = "loop"
    /\ anchor_count < NUM_ANCHORS_PER_RUN
    /\ capture_due
    /\ \E anchor_img \in Images, seg_mask \in Images :
          anchor_img = "None" \/ seg_mask = "None"
    /\ capture_due' = FALSE
    /\ last_message' = "invalid_image"
    /\ UNCHANGED <<ENV_ID, anchor_count, csv_rows, logger_pc, runs>>
    /\ UNCHANGED <<df, hp, pc, naiveVars, vecVars>>

\* one loop iteration whose capture returns both images: the row is
\* written first, the counter advances only past the obstacle mask test
LoggerCapture ==
    /\ logger_pc = "loop"
    /\ anchor_count < NUM_ANCHORS_PER_RUN
    /\ capture_due
    /\ LET current_anchor_index == start_anchor_index + anchor_count
           obstacle_mask == CreateObstacleMask("image")
       IN  /\ csv_rows' = Append(csv_rows,
                                 [anchor_id |-> current_anchor_index,
                                  run |-> runs])
           /\ IF obstacle_mask = "None"
                 THEN /\ anchor_count' = anchor_count
                      /\ last_message' = "invalid_mask"
                 ELSE /\ anchor_count' = anchor_count + 1
                      /\ last_message' = "saved"
    /\ capture_due' = FALSE
    /\ UNCHANGED <<ENV_ID, logger_pc, runs>>
    /\ UNCHANGED <<df, hp, pc, naiveVars, vecVars>>

\* the loop test fails: the file is closed and the drone lands
LoggerLand ==
    /\ logger_pc = "loop"
    /\ anchor_count >= NUM_ANCHORS_PER_RUN
    /\ logger_pc' = "landed"
    /\ last_message' = "landed"
    /\ UNCHANGED <<ENV_ID, anchor_count, csv_rows, capture_due, runs>>
    /\ UNCHANGED <<df, hp, pc, naiveVars, vecVars>>

\* the similarity scripts are not running while the logger collects data
InitLogger ==
    /\ df = <<>>
    /\ hp = MainHP
    /\ pc = "naive_zeros"
    /\ i = 0
    /\ j = 0
    /\ similarity_matrix = EmptyMatrix
    /\ sa_calls = <<>>
    /\ pos_similarity_matrix = EmptyMatrix
    /\ rot_similarity_matrix = EmptyMatrix
    /\ final_similarity_matrix = EmptyMatrix
    /\ matrix_df = NoFrame
    /\ naive_error = "none"
    /\ vec_error = "none"
    /\ naive_file = NoFile
    /\ vec_file = NoFile
    /\ LoggerIdle

NextLogger ==
    \/ \E env \in 0..MaxEnvId : LoggerStart(env)
    \/ LoggerMove
    \/ LoggerSkipInvalid
    \/ LoggerCapture
    \/ LoggerLand

SpecLogger == InitLogger /\ [][NextLogger]_vars

\* rows the current run has appended to privileged_data.csv
RowsOfRun == SelectSeq(csv_rows, LAMBDA r : r.run = runs)

\* C26: after any sequence of logger runs on the same privileged_data.csv,
\* the rows of the file carry pairwise distinct anchor_ids
ClaimC26 ==
    \A k \in 1..Len(csv_rows) : \A l \in 1..Len(csv_rows) :
        k # l => csv_rows[k].anchor_id # csv_rows[l].anchor_id

\* C30: within one run the rows written carry the consecutive anchor_ids
\* ENV_ID * NUM_ANCHORS_PER_RUN, +1, ... without gap or repeat, as many as
\* anchor_count; a step that writes a row appends exactly that row and
\* advances anchor_count by one, a step that writes none (invalid image or
\* mask, plain move) leaves anchor_count alone; at exit exactly
\* NUM_ANCHORS_PER_RUN rows have been written
ClaimC30 ==
    /\ [](logger_pc \in {"loop", "landed"} =>
            /\ Len(RowsOfRun) = anchor_count
            /\ \A k \in 1..Len(RowsOfRun) :
                  RowsOfRun[k].anchor_id = start_anchor_index + (k - 1)
            /\ anchor_count <= NUM_ANCHORS_PER_RUN
            /\ (logger_pc = "landed" =>
                  Len(RowsOfRun) = NUM_ANCHORS_PER_RUN))
    /\ [][logger_pc = "loop" =>
            /\ (csv_rows' # csv_rows =>
                  /\ csv_rows' = Append(csv_rows,
                         [anchor_id |-> start_anchor_index + anchor_count,
                          run |-> runs])
                  /\ anchor_count' = anchor_count + 1)
            /\ (csv_rows' = csv_rows => anchor_count' = anchor_count)
            /\ (last_message' = "invalid_image" => csv_rows' = csv_rows)]_vars

\* a second run has skipped an invalid capture after writing its first row,
\* numbered from its own start index, behind the rows of the first run
WitnessC30 ==
    /\ runs = 2
    /\ ENV_ID = 1
    /\ logger_pc = "loop"
    /\ last_message = "invalid_image"
    /\ anchor_count = 1
    /\ Len(csv_rows) = NUM_ANCHORS_PER_RUN + 1
    /\ csv_rows[Len(csv_rows)].anchor_id = NUM_ANCHORS_PER_RUN

====
